---- MODULE Spec2Model ----
(***************************************************************************)
(* Model of src/haiku/native/java/nio/MappedByteBuffer.cpp: the three JNI  *)
(* entry points of java.nio.MappedByteBuffer on Haiku.                     *)
(*                                                                         *)
(*   isLoaded0  prints a diagnostic and returns false                      *)
(*   load0      walks the mapped region, one volatile int read per page    *)
(*   force0     prints a diagnostic                                        *)
(*                                                                         *)
(* Machine integers keep their two's complement behaviour, at a reduced    *)
(* width so that the overflow cases are reachable by exhaustive search:    *)
(* jint/int is IntBits wide, jlong (and a pointer) is LongBits wide.       *)
(* LongBits exceeds IntBits by more than 2, so that numPages can exceed    *)
(* both INT_MAX and 2^IntBits, also with a pageSize of 4 or more.          *)
(* sizeof(int) stays 4: memory is an array of 4-byte words.                *)
(***************************************************************************)
EXTENDS Integers, Sequences, FiniteSets

\* ---------------------------------------------------------------- bounds
IntBits == 4
LongBits == 7
MaxBase == 1
MaxSeed == 0
MaxWraps == 1
MaxCalls == 2

\* ------------------------------------------------------ program constants
SizeofInt == 4

RECURSIVE Pow2(_)
Pow2(n) == IF n = 0 THEN 1 ELSE 2 * Pow2(n - 1)

IntMax == Pow2(IntBits - 1) - 1
IntMin == -Pow2(IntBits - 1)
LongMax == Pow2(LongBits - 1) - 1
LongMin == -Pow2(LongBits - 1)

JInt == IntMin..IntMax
JLong == LongMin..LongMax

\* Two's complement reduction of a mathematical integer to w bits.
Wrap(x, w) == ((x + Pow2(w - 1)) % Pow2(w)) - Pow2(w - 1)
ToInt(x) == Wrap(x, IntBits)
ToLong(x) == Wrap(x, LongBits)

\* C integer division truncates toward zero (the divisor is positive here).
TruncDiv(a, b) == IF a >= 0 THEN a \div b ELSE -((-a) \div b)

\* The address space: pointers are as wide as jlong; words of SizeofInt bytes.
AddrSpace == Pow2(LongBits)
WordIdx == 0..((AddrSpace \div SizeofInt) - 1)
Bases == {SizeofInt * k : k \in 1..MaxBase}

\* Contents of memory, one int per word; the seed selects the image.
Image(s) == [k \in WordIdx |-> ToInt((s + 1) * (k + 1))]

IsLoadedDiag == "Java_java_nio_MappedByteBuffer_isLoaded0: unimplemented"
ForceDiag == "Java_java_nio_MappedByteBuffer_force0: unimplemented"

VARIABLES
    pc,             \* position of the native caller: idle, loop, done, fault
    build,          \* how the build resolves the overflow of the loop counter
    mem,            \* memory contents, by word index
    address, len, pageSize,   \* arguments of the load0 call
    ptr,            \* load0: int *ptr, as a byte address
    pageIncrement,  \* load0: int pageIncrement
    numPages,       \* load0: jlong numPages
    i, j,           \* load0: loop counter and accumulator
    ret,            \* value returned by load0
    reads,          \* byte addresses of the int reads made by load0, in order
    vals,           \* the words those reads delivered, in order
    isLoadedRet,    \* set of values isLoaded0 has returned so far
    stderr          \* diagnostics printed so far

vars == <<pc, build, mem, address, len, pageSize, ptr, pageIncrement, numPages,
          i, j, ret, reads, vals, isLoadedRet, stderr>>

load0Vars == <<address, len, pageSize, ptr, pageIncrement, numPages,
               i, j, ret, reads, vals>>

\* Native calls made so far: each stub call left one diagnostic, and load0
\* has been entered once the caller has left "idle".
CallsMade == Len(stderr) + (IF pc = "idle" THEN 0 ELSE 1)

Init ==
    /\ pc = "idle"
    /\ build = "none"
    /\ \E s \in 0..MaxSeed : mem = Image(s)
    /\ address = SizeofInt /\ len = 0 /\ pageSize = 1
    /\ ptr = SizeofInt /\ pageIncrement = 0 /\ numPages = 0
    /\ i = 0 /\ j = 0 /\ ret = 0
    /\ reads = <<>> /\ vals = <<>>
    /\ isLoadedRet = {}
    /\ stderr = <<>>

\* ------------------------------------------------------------ isLoaded0
IsLoaded0Result_True == TRUE

IsLoaded0Result == FALSE

IsLoaded0(a, l) ==
    /\ pc \in {"idle", "done"}
    /\ CallsMade < MaxCalls
    /\ stderr' = Append(stderr, IsLoadedDiag)
    /\ isLoadedRet' = isLoadedRet \cup {IsLoaded0Result}
    /\ UNCHANGED <<pc, build, mem, load0Vars>>

\* --------------------------------------------------------------- force0
Force0Mem(m, a, l) == m

Force0(a, l) ==
    /\ pc \in {"idle", "done"}
    /\ CallsMade < MaxCalls
    /\ stderr' = Append(stderr, ForceDiag)
    /\ mem' = Force0Mem(mem, a, l)
    /\ UNCHANGED <<pc, build, isLoadedRet, load0Vars>>

\* ---------------------------------------------------------------- load0
\* int pageIncrement = pageSize / sizeof(int);
PageIncrement(ps) == ToInt(ps \div SizeofInt)

\* numPages without the "- 1" of the rounding.
NumPages_NoMinusOne(l, ps) == TruncDiv(ToLong(l + ps), ps)

\* numPages with len taken as an unsigned quantity.
NumPages_Unsigned(l, ps) == ((l % Pow2(LongBits)) + ps - 1) \div ps

\* jlong numPages = (len + pageSize - 1) / pageSize;   (jlong arithmetic)
\* A sum beyond LONG_MAX is a signed overflow; the add the compiler emits
\* wraps, and the division then truncates toward zero.
NumPages(l, ps) == TruncDiv(ToLong(ToLong(l + ps) - 1), ps)

\* j = *ptr;
Accumulate_Assign(acc, w) == w

\* j += *ptr;   (int arithmetic; the emitted add wraps)
Accumulate(acc, w) == ToInt(acc + w)

\* ptr += pageIncrement;   (pointer to int: scaled by sizeof(int))
AdvancePtr(p, inc) == p + inc * SizeofInt

\* The int at byte address p lies wholly inside the caller's region.
InRegion(p) == p >= address /\ p + SizeofInt <= address + len

\* The int at byte address p lies inside the address space at all.
InAddrSpace(p) == p >= 0 /\ p + SizeofInt <= AddrSpace

\* *((volatile int *)ptr)
WordAt(m, p) == m[p \div SizeofInt]

\* A touch that stores: (*ptr)++.
MemAfterTouch_Store(m, p) ==
    [m EXCEPT ![p \div SizeofInt] = ToInt(m[p \div SizeofInt] + 1)]

\* The volatile read leaves the word it reads as it was.
MemAfterTouch(m, p) == m

\* The loop counter is an int and numPages a jlong: when numPages exceeds
\* INT_MAX the i++ at INT_MAX overflows, which is undefined. Compilers
\* resolve it in three ways (gcc -Os: "wide"; -O0 and -fwrapv: "wrap";
\* -O1 to -O3: "trunc"). A call that stays below INT_MAX is "none".
AllBuilds == {"none", "wide", "wrap", "trunc"}
Builds(n) == IF n > IntMax THEN {"wide", "wrap", "trunc"} ELSE {"none"}

\* Lines 45-49. The caller (MappedByteBuffer.load) passes the page size of
\* the system, so ps ranges over the positive jint values.
Load0Enter(a, l, ps, b) ==
    /\ pc = "idle"
    /\ CallsMade < MaxCalls
    /\ b \in Builds(NumPages(l, ps))
    /\ build' = b
    /\ address' = a /\ len' = l /\ pageSize' = ps
    /\ ptr' = a
    /\ pageIncrement' = PageIncrement(ps)
    /\ numPages' = NumPages(l, ps)
    /\ i' = 0 /\ j' = 0
    /\ reads' = <<>> /\ vals' = <<>>
    /\ pc' = "loop"
    /\ UNCHANGED <<mem, ret, isLoadedRet, stderr>>

\* for (i=0; i<numPages; i++): the test at the head of the loop.
\* "none", "wide": i is compared as a jlong. "wrap": i is an int that has
\* wrapped, still compared as a jlong. "trunc": the loop is entered when
\* numPages > 0 and left when the int counter equals the low bits of
\* numPages (cmpl %edx, %edi; jne).
LoopCond ==
    IF build = "trunc"
    THEN IF reads = <<>> THEN 0 < numPages ELSE i # ToInt(numPages)
    ELSE i < numPages

\* i++. Past INT_MAX the increment is undefined: the counter goes on in a
\* register as wide as numPages ("wide"), or is reduced to int ("wrap",
\* "trunc").
IncI(b, c) == IF b \in {"wrap", "trunc"} THEN ToInt(c + 1) ELSE c + 1

\* How often the int counter has wrapped so far in this call.
Wraps == (Len(reads) - i) \div Pow2(IntBits)

\* One iteration of the loop whose read is served. A read outside the
\* caller's region is undefined: it is served here when the neighbouring
\* memory happens to be mapped (and faults in Load0Fault otherwise).
\* In the "wrap" build a call with numPages > INT_MAX never leaves the loop
\* on its own; the model follows it for MaxWraps wraps of the counter.
Load0Touch ==
    /\ pc = "loop"
    /\ LoopCond
    /\ InAddrSpace(ptr)
    /\ (build = "wrap" /\ i = IntMax) => Wraps < MaxWraps
    /\ reads' = Append(reads, ptr)
    /\ vals' = Append(vals, WordAt(mem, ptr))
    /\ j' = Accumulate(j, WordAt(mem, ptr))
    /\ mem' = MemAfterTouch(mem, ptr)
    /\ ptr' = AdvancePtr(ptr, pageIncrement)
    /\ i' = IncI(build, i)
    /\ UNCHANGED <<pc, build, address, len, pageSize, pageIncrement, numPages,
                   ret, isLoadedRet, stderr>>

\* The read touches a byte outside the caller's region and the process
\* faults on it.
Load0Fault ==
    /\ pc = "loop"
    /\ LoopCond
    /\ ~InRegion(ptr)
    /\ reads' = Append(reads, ptr)
    /\ pc' = "fault"
    /\ UNCHANGED <<mem, build, address, len, pageSize, ptr, pageIncrement,
                   numPages, i, j, ret, vals, isLoadedRet, stderr>>

\* return j;
Load0Return ==
    /\ pc = "loop"
    /\ ~LoopCond
    /\ ret' = j
    /\ pc' = "done"
    /\ UNCHANGED <<mem, build, address, len, pageSize, ptr, pageIncrement,
                   numPages, i, j, reads, vals, isLoadedRet, stderr>>

\* A call of load0 by the idle caller, with any arguments.
Load0Call ==
    /\ pc = "idle"
    /\ \E a \in Bases, l \in JLong, ps \in 1..IntMax :
         \E b \in Builds(NumPages(l, ps)) : Load0Enter(a, l, ps, b)

\* Lengths handed to the two stubs, which ignore them.
StubLens == {LongMin, 0, LongMax}

Next ==
    \/ \E a \in Bases, l \in StubLens : IsLoaded0(a, l)
    \/ \E a \in Bases, l \in StubLens : Force0(a, l)
    \/ Load0Call
    \/ Load0Touch
    \/ Load0Fault
    \/ Load0Return

Spec == Init /\ [][Next]_vars

TypeOK ==
    /\ pc \in {"idle", "loop", "done", "fault"}
    /\ build \in AllBuilds
    /\ address \in Bases /\ len \in JLong /\ pageSize \in 1..IntMax
    /\ pageIncrement \in JInt /\ numPages \in JLong
    /\ i \in JLong /\ j \in JInt /\ Wraps \in 0..MaxWraps /\ ret \in JInt
    /\ isLoadedRet \subseteq BOOLEAN
    /\ CallsMade <= MaxCalls

\* ============================================================ properties
RECURSIVE SumSeq(_)
SumSeq(s) == IF s = <<>> THEN 0 ELSE s[1] + SumSeq(Tail(s))

Range(s) == {s[k] : k \in 1..Len(s)}

\* ceil(a / b) over the mathematical integers, a >= 0, b > 0.
CeilDiv(a, b) == IF a % b = 0 THEN a \div b ELSE (a \div b) + 1

Called == pc \in {"loop", "done", "fault"}

\* C1: for every length >= 0 and pageSize > 0, a completed load0 has made
\* exactly ceil(length / pageSize) reads.
C1_ExactPageCount ==
    (pc = "done" /\ len >= 0) => Len(reads) = CeilDiv(len, pageSize)

\* C2: the k-th read of load0 (counting from 0) is at byte address
\* base + k * pageSize.
C2_ReadAddresses ==
    \A k \in 1..Len(reads) : reads[k] = address + (k - 1) * pageSize

\* C3: when pageSize divides the length, a completed load0 has read no
\* address twice and has read at every page start of [base, base + length).
C3_EachPageOnce ==
    (pc = "done" /\ len >= 0 /\ len % pageSize = 0) =>
        /\ Cardinality(Range(reads)) = Len(reads)
        /\ \A n \in 0..((len \div pageSize) - 1) :
               address + n * pageSize \in Range(reads)

\* C4: every 4-byte read of load0 lies wholly in [base, base + length).
C4_ReadsInsideRegion ==
    \A k \in 1..Len(reads) :
        reads[k] >= address /\ reads[k] + SizeofInt <= address + len

\* C5: no step of load0 changes a byte of memory.
C5_NeverWrites ==
    [][(pc = "loop" \/ pc' = "loop") => mem' = mem]_vars

C5_Witness ==
    pc = "done" /\ Len(vals) >= 2 /\ \E k \in 1..Len(vals) : vals[k] # 0

\* C6: load0 with length 0 reads nothing, completes, and returns 0.
C6_ZeroLength ==
    (Called /\ len = 0) =>
        /\ numPages = 0
        /\ reads = <<>>
        /\ pc \in {"loop", "done"}
        /\ pc = "done" => ret = 0

C6_Witness ==
    pc = "done" /\ len = 0 /\ pageSize > 1 /\ mem[address \div SizeofInt] # 0

\* C7: isLoaded0 returns false whatever its arguments, force0 changes no
\* byte of memory, and neither touches anything but the diagnostic stream.
C7_Stubs ==
    [][Len(stderr') > Len(stderr) =>
         /\ mem' = mem
         /\ isLoadedRet' \subseteq {FALSE}
         /\ stderr'[Len(stderr')] = IsLoadedDiag => isLoadedRet' = {FALSE}
         /\ stderr'[Len(stderr')] = ForceDiag => isLoadedRet' = isLoadedRet
         /\ UNCHANGED <<pc, load0Vars>>]_vars

C7_Witness ==
    /\ IsLoadedDiag \in Range(stderr)
    /\ ForceDiag \in Range(stderr)
    /\ isLoadedRet = {FALSE}
    /\ \E k \in WordIdx : mem[k] # 0

\* C8: for every length >= 0 over a fully readable region, the computation
\* len + pageSize - 1 stays within jlong, the loop counter never wraps, and
\* the loop ends after exactly numPages reads.
C8_LoopTerminates ==
    (Called /\ len >= 0 /\ \A k \in 1..Len(reads) : InRegion(reads[k])) =>
        /\ len + pageSize - 1 \in JLong
        /\ i \in 0..numPages
        /\ pc = "done" => Len(reads) = numPages

\* C9: the value load0 returns is the sum of the words it read, reduced to
\* int, and nothing else.
C9_ReturnIsSum ==
    pc = "done" =>
        /\ Len(vals) = Len(reads)
        /\ ret = ToInt(SumSeq(vals))

C9_Witness ==
    pc = "done" /\ Len(vals) >= 2 /\ SumSeq(vals) > IntMax

\* C10: load0 with a negative length computes numPages <= 0, reads nothing,
\* completes, and returns 0.
C10_NegativeLength ==
    (Called /\ len < 0) =>
        /\ numPages <= 0
        /\ reads = <<>>
        /\ pc \in {"loop", "done"}
        /\ pc = "done" => ret = 0

C10_Witness ==
    /\ pc = "done" /\ len < 0 /\ numPages < 0
    /\ pageSize > 1 /\ mem[address \div SizeofInt] # 0
====
